---- MODULE Spec2Model ----
(***************************************************************************)
(* The swap-and-transfer client of src/src/main.rs as a state machine:     *)
(* main() builds one programmable transaction (a DeepBook swap followed by *)
(* a transfer of its three results), resolves the sender's SUI coins as    *)
(* gas payment, reads the reference gas price, assembles the transaction   *)
(* data, signs it with the transaction intent and submits it once.         *)
(* Every `?` of the source is a failure branch that ends the run with the  *)
(* error of that step; the assert! of sign_and_execute is a panic.         *)
(***************************************************************************)
EXTENDS Integers, Sequences, FiniteSets, TLC

\* ---------------------------------------------------------------- bounds
MaxPrep == 2        \* commands the swap helper may append before its move call
MaxCoins == 2       \* SUI coins get_coins may return
MaxVersion == 2     \* versions a returned coin may be at
MaxPrice == 2       \* reference gas prices the node may report

\* ------------------------------------------------------ program constants
SwapOutputCount == 3        \* (base, quote, deep) destructured at main.rs:117
GasBudget == 50000000       \* main.rs:146

Sender == "0x1ae2"          \* main.rs:40 (abbreviated)

\* Option<T> is a sequence of length at most one.
None == <<>>
Some(x) == <<x>>
IsSome(o) == Len(o) = 1
Unwrap(o) == o[1]

VARIABLES
    pc,               \* position of main / sign_and_execute
    inputs,           \* ptb.inputs
    commands,         \* ptb.commands
    ptb_live,         \* TRUE while the builder has not been consumed by finish()
    swap_result,      \* Option<(base_coin_result, quote_coin_result, deep_coin_result)>
    gas_object_refs,  \* Option<Vec<ObjectRef>> (None before the get_coins query)
    gas_price,        \* Option<u64>
    pt,               \* Option<ProgrammableTransaction>
    tx_data,          \* Option<TransactionData>
    signature,        \* Option<Signature>
    sent,             \* transactions handed to execute_transaction_block, in order
    response,         \* Option: what the quorum driver answered
    result,           \* Option: how main ended (Ok, Err(e) or a panic)
    log               \* history: the steps executed so far and whether each succeeded

vars == <<pc, inputs, commands, ptb_live, swap_result, gas_object_refs, gas_price,
          pt, tx_data, signature, sent, response, result, log>>

\* ------------------------------------------------------------ data model
\* Argument (sui_types::transaction::Argument); command indices are 0-based.
Input(i) == [t |-> "Input", idx |-> i, sub |-> 0]
Result(i) == [t |-> "Result", idx |-> i, sub |-> 0]
NestedResult(i, j) == [t |-> "NestedResult", idx |-> i, sub |-> j]

IsResultHandle(a) == a.t \in {"Result", "NestedResult"}

\* Result<(), anyhow::Error> of main, or the panic of a failed assert!/unwrap.
Ok == [tag |-> "Ok", error |-> ""]
Err(e) == [tag |-> "Err", error |-> e]
Panic(m) == [tag |-> "Panic", error |-> m]

\* Intent::sui_transaction(): scope TransactionData, version V0, app Sui.
IntentSuiTransaction == [scope |-> "TransactionData", version |-> "V0", app_id |-> "Sui"]

\* A coin as get_coins reports it; the digest is determined by (id, version).
Coin(id, v) == [coin_object_id |-> id, version |-> v, digest |-> <<"digest", id, v>>]

\* (coin.coin_object_id, coin.version, coin.digest), main.rs:143
ObjectRefOf(coin) == <<coin.coin_object_id, coin.version, coin.digest>>

\* The pages get_coins can return: distinct objects, each at some version,
\* in no particular order; possibly none.
CoinPages ==
    UNION { { p \in [1..n -> {Coin(id, v) : id \in 1..MaxCoins, v \in 1..MaxVersion}] :
                \A i, j \in 1..n : i # j => p[i].coin_object_id # p[j].coin_object_id }
            : n \in 0..MaxCoins }

\* gas_coins.iter().map(..).collect(), main.rs:141-144
CollectObjectRefs(coins) == [i \in 1..Len(coins) |-> ObjectRefOf(coins[i])]

\* get_gas_coin (main.rs:67-74) on the page the query returned: the first
\* coin's reference, and a panic from unwrap() on an empty page.  main never
\* calls it.
get_gas_coin(coins) ==
    IF coins = <<>> THEN Panic("called Option::unwrap() on a None value")
    ELSE [tag |-> "Ok", error |-> "", value |-> ObjectRefOf(coins[1])]

\* --------------------------------------------------------- control flow
\* The statements of main (main.rs:107-159) and of sign_and_execute
\* (main.rs:82-91) up to the submission, in program order.
\* A variant that resolves the gas coins before the builder is touched.
ProgramOrderResolverFirst ==
    <<"setup_client", "get_whitelisted_status", "get_coins",
      "swap_exact_base_for_quote", "transfer_args", "get_reference_gas_price",
      "finish", "new_programmable", "keystore", "sign_secure",
      "execute_transaction_block", "await_response">>

ProgramOrder ==
    <<"setup_client", "get_whitelisted_status", "swap_exact_base_for_quote",
      "transfer_args", "get_coins", "get_reference_gas_price", "finish",
      "new_programmable", "keystore", "sign_secure", "execute_transaction_block",
      "await_response">>

IndexOf(seq, x) == CHOOSE i \in 1..Len(seq) : seq[i] = x

\* The statement that follows statement p when p succeeds.
NextPc(p) == ProgramOrder[IndexOf(ProgramOrder, p) + 1]

Step(name, ok) == log' = Append(log, [step |-> name, ok |-> ok])

\* `?` on a failed step: main returns that error at once.
Fail(e) ==
    /\ pc' = "done"
    /\ result' = Some(Err(e))

Init ==
    /\ pc = ProgramOrder[1]
    /\ inputs = <<>>
    /\ commands = <<>>
    /\ ptb_live = FALSE
    /\ swap_result = None
    /\ gas_object_refs = None
    /\ gas_price = None
    /\ pt = None
    /\ tx_data = None
    /\ signature = None
    /\ sent = <<>>
    /\ response = None
    /\ result = None
    /\ log = <<>>

\* main.rs:107-108: setup_client().await? ; ProgrammableTransactionBuilder::new()
SetupClient ==
    /\ pc = "setup_client"
    /\ \E ok \in BOOLEAN :
         /\ Step("setup_client", ok)
         /\ IF ok
            THEN /\ pc' = NextPc(pc)
                 /\ ptb_live' = TRUE
                 /\ UNCHANGED result
            ELSE /\ Fail("setup_client")
                 /\ UNCHANGED ptb_live
    /\ UNCHANGED <<inputs, commands, swap_result, gas_object_refs, gas_price, pt,
                   tx_data, signature, sent, response>>

\* A variant that carries on after a failed whitelist query.
GetWhitelistedStatusIgnoringFailure ==
    /\ pc = "get_whitelisted_status"
    /\ \E ok \in BOOLEAN :
         /\ Step("get_whitelisted_status", ok)
         /\ pc' = NextPc(pc)
         /\ UNCHANGED result
    /\ UNCHANGED <<inputs, commands, ptb_live, swap_result, gas_object_refs, gas_price,
                   pt, tx_data, signature, sent, response>>

\* main.rs:112-115: the whitelist query; its boolean is only printed.
GetWhitelistedStatus ==
    /\ pc = "get_whitelisted_status"
    /\ \E ok \in BOOLEAN :
         /\ Step("get_whitelisted_status", ok)
         /\ IF ok
            THEN pc' = NextPc(pc) /\ UNCHANGED result
            ELSE Fail("get_whitelisted_status")
    /\ UNCHANGED <<inputs, commands, ptb_live, swap_result, gas_object_refs, gas_price,
                   pt, tx_data, signature, sent, response>>

\* ------------------------------------------------- the command builder
\* ProgrammableTransactionBuilder::command: push, and hand back Result(index)
\* where index is the position the command was pushed at (0-based).
CommandIndex(cmds) == Len(cmds)

\* deep_book.swap_exact_base_for_quote(&mut ptb, &SwapParams{..}) as main uses
\* it (main.rs:117-128): the helper registers its inputs (the coin it swaps,
\* the pool, min_out, the clock), appends `nprep` coin-preparing commands and
\* then the move call, and returns the three results of that move call in
\* the order base, quote, deep.
SwapInputs == <<"coin", "pool", "min_out", "clock">>

PrepCommand(coin) == [kind |-> "SplitCoins", args |-> <<Input(coin)>>]

\* The move call takes the pool, the coins to swap (the prepared ones, or
\* the input coin itself when nothing was prepared), min_out and the clock.
SwapMoveCall(base, first, nprep) ==
    [kind |-> "MoveCall",
     args |-> <<Input(base + 1)>>
                \o (IF nprep = 0 THEN <<Input(base)>>
                    ELSE [k \in 1..nprep |-> Result(first + k - 1)])
                \o <<Input(base + 2), Input(base + 3)>>]

SwapCommands(ins, cmds, nprep) ==
    cmds \o [k \in 1..nprep |-> PrepCommand(Len(ins))]
         \o <<SwapMoveCall(Len(ins), CommandIndex(cmds), nprep)>>

\* A variant that numbers the move call by the length after the push.
SwapIndexAfterPush(cmds, nprep) == CommandIndex(cmds) + nprep + 1

\* Index of the swap move call: the position it is pushed at.
SwapIndex(cmds, nprep) == CommandIndex(cmds) + nprep

swap_exact_base_for_quote(cmds, nprep) ==
    [j \in 1..SwapOutputCount |-> NestedResult(SwapIndex(cmds, nprep), j - 1)]

\* A variant that leaves the fee rebate out of the transfer.
TransferArgumentsDroppingDeep(outs) == <<outs[1], outs[2]>>

\* vec![base_coin_result, quote_coin_result, deep_coin_result], main.rs:132
TransferArguments(outs) == <<outs[1], outs[2], outs[3]>>

\* ptb.transfer_args(recipient, args): registers the recipient as a pure
\* input and pushes one TransferObjects command; nothing is validated.
transfer_args(ins, args) ==
    [kind |-> "TransferObjects", args |-> args, recipient |-> Input(Len(ins))]

\* main.rs:117-128
SwapExactBaseForQuote ==
    /\ pc = "swap_exact_base_for_quote"
    /\ ptb_live
    /\ \/ /\ Step("swap_exact_base_for_quote", FALSE)
          /\ Fail("swap_exact_base_for_quote")
          /\ UNCHANGED <<inputs, commands, swap_result>>
       \/ \E nprep \in 0..MaxPrep :
            /\ Step("swap_exact_base_for_quote", TRUE)
            /\ inputs' = inputs \o SwapInputs
            /\ commands' = SwapCommands(inputs, commands, nprep)
            /\ swap_result' = Some(swap_exact_base_for_quote(commands, nprep))
            /\ pc' = NextPc(pc)
            /\ UNCHANGED result
    /\ UNCHANGED <<ptb_live, gas_object_refs, gas_price, pt, tx_data, signature, sent,
                   response>>

\* main.rs:130-133
TransferArgs ==
    /\ pc = "transfer_args"
    /\ ptb_live
    /\ Step("transfer_args", TRUE)
    /\ inputs' = Append(inputs, Sender)
    /\ commands' = Append(commands,
                          transfer_args(inputs, TransferArguments(Unwrap(swap_result))))
    /\ pc' = NextPc(pc)
    /\ UNCHANGED <<ptb_live, swap_result, gas_object_refs, gas_price, pt, tx_data,
                   signature, sent, response, result>>

\* main.rs:135-144: every SUI coin of the sender becomes gas payment; an
\* empty page is collected into an empty vector like any other.
GetCoins ==
    /\ pc = "get_coins"
    /\ \/ /\ Step("get_coins", FALSE)
          /\ Fail("get_coins")
          /\ UNCHANGED gas_object_refs
       \/ \E coins \in CoinPages :
            /\ Step("get_coins", TRUE)
            /\ gas_object_refs' = Some(CollectObjectRefs(coins))
            /\ pc' = NextPc(pc)
            /\ UNCHANGED result
    /\ UNCHANGED <<inputs, commands, ptb_live, swap_result, gas_price, pt, tx_data,
                   signature, sent, response>>

\* main.rs:146-147
GetReferenceGasPrice ==
    /\ pc = "get_reference_gas_price"
    /\ \/ /\ Step("get_reference_gas_price", FALSE)
          /\ Fail("get_reference_gas_price")
          /\ UNCHANGED gas_price
       \/ \E p \in 1..MaxPrice :
            /\ Step("get_reference_gas_price", TRUE)
            /\ gas_price' = Some(p)
            /\ pc' = NextPc(pc)
            /\ UNCHANGED result
    /\ UNCHANGED <<inputs, commands, ptb_live, swap_result, gas_object_refs, pt, tx_data,
                   signature, sent, response>>

\* main.rs:148-153: finish() consumes the builder.
Finish ==
    /\ pc = "finish"
    /\ ptb_live
    /\ Step("finish", TRUE)
    /\ pt' = Some([inputs |-> inputs, commands |-> commands])
    /\ ptb_live' = FALSE
    /\ pc' = NextPc(pc)
    /\ UNCHANGED <<inputs, commands, swap_result, gas_object_refs, gas_price, tx_data,
                   signature, sent, response, result>>

\* TransactionData::new_programmable(sender, gas_object_refs, pt, gas_budget,
\* gas_price), main.rs:155-156: infallible, whatever the payment list holds.
new_programmable(sender, payment, p, budget, price) ==
    [sender |-> sender, gas_payment |-> payment, kind |-> p,
     gas_budget |-> budget, gas_price |-> price]

NewProgrammable ==
    /\ pc = "new_programmable"
    /\ Step("new_programmable", TRUE)
    /\ tx_data' = Some(new_programmable(Sender, Unwrap(gas_object_refs), Unwrap(pt),
                                        GasBudget, Unwrap(gas_price)))
    /\ pc' = NextPc(pc)
    /\ UNCHANGED <<inputs, commands, ptb_live, swap_result, gas_object_refs, gas_price,
                   pt, signature, sent, response, result>>

\* ------------------------------------------------------ sign_and_execute
\* main.rs:82: opening the keystore file.
KeystoreNew ==
    /\ pc = "keystore"
    /\ \E ok \in BOOLEAN :
         /\ Step("keystore", ok)
         /\ IF ok
            THEN pc' = NextPc(pc) /\ UNCHANGED result
            ELSE Fail("keystore")
    /\ UNCHANGED <<inputs, commands, ptb_live, swap_result, gas_object_refs, gas_price,
                   pt, tx_data, signature, sent, response>>

\* A variant that signs under the personal-message scope.
SigningIntentPersonalMessage ==
    [scope |-> "PersonalMessage", version |-> "V0", app_id |-> "Sui"]

\* The intent sign_and_execute passes to sign_secure, main.rs:83.
SigningIntent == IntentSuiTransaction

\* keystore.sign_secure(&sender, &tx_data, intent): a signature by `address`
\* over the intent message (intent, data).
sign_secure(address, data, intent) ==
    [signer |-> address, intent |-> intent, data |-> data]

\* main.rs:83
SignSecure ==
    /\ pc = "sign_secure"
    /\ \/ /\ Step("sign_secure", FALSE)
          /\ Fail("sign_secure")
          /\ UNCHANGED signature
       \/ /\ Step("sign_secure", TRUE)
          /\ signature' = Some(sign_secure(Sender, Unwrap(tx_data), SigningIntent))
          /\ pc' = NextPc(pc)
          /\ UNCHANGED result
    /\ UNCHANGED <<inputs, commands, ptb_live, swap_result, gas_object_refs, gas_price,
                   pt, tx_data, sent, response>>

\* Transaction::from_data(tx_data, vec![signature]), main.rs:88
from_data(data, sigs) == [data |-> data, tx_signatures |-> sigs]

\* main.rs:85-91: the one call of execute_transaction_block.
ExecuteTransactionBlock ==
    /\ pc = "execute_transaction_block"
    /\ Step("execute_transaction_block", TRUE)
    /\ sent' = Append(sent, from_data(Unwrap(tx_data), <<Unwrap(signature)>>))
    /\ pc' = NextPc(pc)
    /\ UNCHANGED <<inputs, commands, ptb_live, swap_result, gas_object_refs, gas_price,
                   pt, tx_data, signature, response, result>>

\* What the quorum driver can answer: a response whose
\* confirmed_local_execution is None, Some(false) or Some(true), or an error
\* (the transaction was rejected, or no answer arrived).
Answers ==
    { [tag |-> "Ok", confirmed_local_execution |-> c, error |-> ""] :
        c \in {None, Some(FALSE), Some(TRUE)} }
    \cup { [tag |-> "Err", confirmed_local_execution |-> None, error |-> e] :
             e \in {"rejected", "timeout"} }

\* A variant that submits again after an error answer.
ReceiveResponseRetrying ==
    /\ pc = "await_response"
    /\ \E ans \in Answers :
         /\ response' = Some(ans)
         /\ Step("await_response", ans.tag = "Ok")
         /\ IF ans.tag = "Ok"
            THEN pc' = "check_confirmed"
            ELSE pc' = "execute_transaction_block"
         /\ UNCHANGED result
    /\ UNCHANGED <<inputs, commands, ptb_live, swap_result, gas_object_refs, gas_price,
                   pt, tx_data, signature, sent>>

\* main.rs:92: `.await?` on the submission.
ReceiveResponse ==
    /\ pc = "await_response"
    /\ \E ans \in Answers :
         /\ response' = Some(ans)
         /\ Step("await_response", ans.tag = "Ok")
         /\ IF ans.tag = "Ok"
            THEN pc' = "check_confirmed" /\ UNCHANGED result
            ELSE Fail(ans.error)
    /\ UNCHANGED <<inputs, commands, ptb_live, swap_result, gas_object_refs, gas_price,
                   pt, tx_data, signature, sent>>

\* confirmed_local_execution.unwrap_or(false), main.rs:95-97
UnwrapOrFalse(o) == IF IsSome(o) THEN Unwrap(o) ELSE FALSE

\* main.rs:94-102 and 159-163: assert!, then Ok(()) all the way up.
CheckConfirmed ==
    /\ pc = "check_confirmed"
    /\ LET confirmed == UnwrapOrFalse(Unwrap(response).confirmed_local_execution)
       IN /\ Step("check_confirmed", confirmed)
          /\ result' = Some(IF confirmed THEN Ok
                            ELSE Panic("Transaction execution failed"))
    /\ pc' = "done"
    /\ UNCHANGED <<inputs, commands, ptb_live, swap_result, gas_object_refs, gas_price,
                   pt, tx_data, signature, sent, response>>

Next ==
    \/ SetupClient
    \/ GetWhitelistedStatus
    \/ SwapExactBaseForQuote
    \/ TransferArgs
    \/ GetCoins
    \/ GetReferenceGasPrice
    \/ Finish
    \/ NewProgrammable
    \/ KeystoreNew
    \/ SignSecure
    \/ ExecuteTransactionBlock
    \/ ReceiveResponse
    \/ CheckConfirmed

Spec == Init /\ [][Next]_vars

\* ------------------------------------------------- reading the history
Ran(name) == \E i \in 1..Len(log) : log[i].step = name
Succeeded(name) == \E i \in 1..Len(log) : log[i] = [step |-> name, ok |-> TRUE]
Failed(name) == \E i \in 1..Len(log) : log[i] = [step |-> name, ok |-> FALSE]

\* The outcome an answer of the network stands for: an error answer is a
\* rejection or a missing answer; a response counts as confirmed only when
\* confirmed_local_execution is Some(true) (main.rs:94-97).
AnswerKind(ans) ==
    IF ans.tag = "Err"
    THEN IF ans.error = "rejected" THEN "Rejected" ELSE "TimedOut"
    ELSE IF UnwrapOrFalse(ans.confirmed_local_execution) THEN "Confirmed" ELSE "TimedOut"

\* The outcome the caller can read off what sign_and_execute handed back.
ResultKind(r) ==
    CASE r.tag = "Ok" -> "Confirmed"
      [] r.tag = "Err" /\ r.error = "rejected" -> "Rejected"
      [] r.tag = "Err" /\ r.error = "timeout" -> "TimedOut"
      [] OTHER -> "Nothing"

\* The driver's state, read off sign_and_execute's position (main.rs:85-102).
DriverState ==
    IF pc = "execute_transaction_block" THEN "Built"
    ELSE IF sent = <<>> THEN "NotStarted"
    ELSE IF response = None THEN "Submitted"
    ELSE AnswerKind(Unwrap(response))

Terminal == {"Confirmed", "Rejected", "TimedOut"}

\* The pipeline stage a statement belongs to.
StageOf(step) ==
    CASE step \in {"swap_exact_base_for_quote", "transfer_args"} -> "Append"
      [] step = "get_coins" -> "Resolver"
      [] step = "get_reference_gas_price" -> "FeeEstimator"
      [] step = "finish" -> "Finish"
      [] step = "new_programmable" -> "Assembler"
      [] step \in {"keystore", "sign_secure"} -> "Signer"
      [] step \in {"execute_transaction_block", "await_response", "check_confirmed"}
           -> "Driver"
      [] OTHER -> "Setup"

\* Every pair of logged steps whose stages are ranked runs in rank order.
InOrder(rank) ==
    \A i, j \in 1..Len(log) :
        LET a == StageOf(log[i].step)
            b == StageOf(log[j].step)
        IN (i < j /\ a \in DOMAIN rank /\ b \in DOMAIN rank) => rank[a] <= rank[b]

NoAppendAfterFinish ==
    \A i, j \in 1..Len(log) :
        (i < j /\ log[i].step = "finish") => StageOf(log[j].step) # "Append"

\* ------------------------------------------------------------------- C1
\* C1: whatever the network answers to the submission, the caller gets a
\* tagged result back (Ok or Err, never nothing), and that result tells
\* Confirmed, Rejected and TimedOut apart: it names the answer's outcome.
C1_OutcomeAlwaysTagged ==
    (pc = "done" /\ response # None) =>
        /\ Unwrap(result).tag \in {"Ok", "Err"}
        /\ ResultKind(Unwrap(result)) = AnswerKind(Unwrap(response))

\* ------------------------------------------------------------------- C2
\* C2: the driver only moves NotStarted -> Built -> Submitted -> one of
\* Confirmed, Rejected, TimedOut; those three are absorbing; at most one
\* submission is ever made, and none after an outcome is known.
C2_DriverStateMachine ==
    [][ /\ (DriverState = "NotStarted" => DriverState' \in {"NotStarted", "Built"})
        /\ (DriverState = "Built" => DriverState' \in {"Built", "Submitted"})
        /\ (DriverState = "Submitted" => DriverState' \in {"Submitted"} \cup Terminal)
        /\ (DriverState \in Terminal => DriverState' = DriverState /\ sent' = sent)
        /\ Len(sent') <= 1 ]_vars

C2_RejectedOnce ==
    /\ pc = "done"
    /\ DriverState = "Rejected"
    /\ Len(sent) = 1
    /\ result = Some(Err("rejected"))

\* ------------------------------------------------------------------- C3
\* C3: when get_coins returns no coin, the run aborts with NoResourceFound,
\* and nothing of the transaction has been constructed by then: no command
\* appended, no graph finished, no payload assembled, signed or submitted.
C3_EmptyResolveAborts ==
    (gas_object_refs = Some(<<>>)) =>
        /\ result = Some(Err("NoResourceFound"))
        /\ commands = <<>>
        /\ pt = None
        /\ tx_data = None
        /\ signature = None
        /\ sent = <<>>

\* ------------------------------------------------------------------- C4
\* C4: with an empty gas payment list the assembly step fails with
\* NoFundingResource: no payload exists and nothing is submitted.
C4_EmptyFundingRejected ==
    (Ran("new_programmable") /\ Unwrap(gas_object_refs) = <<>>) =>
        /\ result = Some(Err("NoFundingResource"))
        /\ tx_data = None
        /\ sent = <<>>

\* ------------------------------------------------------------------- C5
TransferIndices(cmds) == {i \in 1..Len(cmds) : cmds[i].kind = "TransferObjects"}
MoveCallIndices(cmds) == {i \in 1..Len(cmds) : cmds[i].kind = "MoveCall"}

SwapThenTransferAll(cmds) ==
    /\ Cardinality(TransferIndices(cmds)) = 1
    /\ Cardinality(MoveCallIndices(cmds)) = 1
    /\ LET t == CHOOSE i \in TransferIndices(cmds) : TRUE
           m == CHOOSE i \in MoveCallIndices(cmds) : TRUE
       IN /\ m < t
          /\ Len(cmds[t].args) = SwapOutputCount
          /\ \A j \in 1..SwapOutputCount : cmds[t].args[j] = NestedResult(m - 1, j - 1)

\* C5: the finished command graph (and the graph of every submitted
\* transaction) holds exactly one TransferObjects command; it has as many
\* arguments as the swap has outputs (3), and its j-th argument is the swap
\* move call's j-th result: base, quote, deep, each once, in that order.
C5_TransferCoversSwapOutputs ==
    /\ (pt # None => SwapThenTransferAll(Unwrap(pt).commands))
    /\ \A k \in 1..Len(sent) : SwapThenTransferAll(sent[k].data.kind.commands)

C5_FinishedWithPrep ==
    /\ pt # None
    /\ Len(Unwrap(pt).commands) >= 3
    /\ Unwrap(pt).commands[Len(Unwrap(pt).commands)].kind = "TransferObjects"

\* ------------------------------------------------------------------- C6
BackwardOnly(cmds) ==
    \A i \in 1..Len(cmds) :
        \A j \in 1..Len(cmds[i].args) :
            IsResultHandle(cmds[i].args[j]) => cmds[i].args[j].idx < i - 1

ClaimedRank ==
    [s \in {"Resolver", "Append", "Finish", "Assembler", "Signer", "Driver"} |->
        CASE s = "Resolver" -> 1
          [] s \in {"Append", "Finish"} -> 2
          [] s = "Assembler" -> 3
          [] s = "Signer" -> 4
          [] OTHER -> 5]

CodeRank ==
    [s \in {"Setup", "Append", "Resolver", "FeeEstimator", "Finish", "Assembler",
            "Signer", "Driver"} |->
        CASE s = "Setup" -> 0
          [] s = "Append" -> 1
          [] s = "Resolver" -> 2
          [] s = "FeeEstimator" -> 3
          [] s = "Finish" -> 4
          [] s = "Assembler" -> 5
          [] s = "Signer" -> 6
          [] OTHER -> 7]

C9_SignedWithIntentAndUnchanged ==
    /\ (signature # None =>
            Unwrap(signature) =
                [signer |-> Sender, intent |-> IntentSuiTransaction,
                 data |-> Unwrap(tx_data)])
    /\ \A k \in 1..Len(sent) :
         /\ sent[k].data = Unwrap(tx_data)
         /\ sent[k].tx_signatures =
                <<[signer |-> Sender, intent |-> IntentSuiTransaction,
                   data |-> sent[k].data]>>

C9_SubmittedSigned ==
    /\ Len(sent) = 1
    /\ signature # None
    /\ Len(sent[1].data.gas_payment) >= 1

\* ------------------------------------------------------------------ C10
PreSignSteps ==
    {"setup_client", "get_whitelisted_status", "swap_exact_base_for_quote",
     "get_coins", "get_reference_gas_price"}

\* C10: a failed step before signing is the last step of the run, which
\* ends with that step's error, unsigned and unsubmitted; and a signature
\* or a submission exists only when every one of those steps has succeeded.
C10_FailureBeforeSigningStopsRun ==
    /\ \A i \in 1..Len(log) :
         (log[i].step \in PreSignSteps /\ ~log[i].ok) =>
            /\ i = Len(log)
            /\ pc = "done"
            /\ result = Some(Err(log[i].step))
            /\ signature = None
            /\ sent = <<>>
    /\ (signature # None \/ sent # <<>>) => \A s \in PreSignSteps : Succeeded(s)

C10_GasPriceQueryFailed ==
    /\ Failed("get_reference_gas_price")
    /\ commands # <<>>
    /\ gas_object_refs # None
    /\ pc = "done"
====
